---- MODULE Spec2Model ----
(***************************************************************************)
(* The event batching and delivery bridge of the xatu crate:               *)
(*   crates/xatu/src/observer_ffi.rs  XatuObserver (constructor, worker    *)
(*                                    thread with the batch loop, the      *)
(*                                    observer entry points, Drop)         *)
(*   crates/xatu/src/ffi.rs           XatuFFI (Init / SendEventBatch /     *)
(*                                    Shutdown behind FFI_MUTEX)           *)
(*                                                                         *)
(* Threads: the constructing thread (new_with_full_config), the dedicated  *)
(* worker thread it spawns, the producer threads that call the observer    *)
(* entry points, and the thread that drops the observer.                   *)
(*                                                                         *)
(* Time is discrete.  No absolute clock is kept: the model keeps the       *)
(* differences the code computes (now - last_batch_time, and the time      *)
(* spent since `now` was read), saturated at TimeCap, which no comparison  *)
(* of the code can tell from a larger value.                               *)
(***************************************************************************)
EXTENDS Integers, Sequences, FiniteSets, TLC

(* ------------------------------ bounds --------------------------------- *)

\* Number of producer threads calling the observer entry points.
NumProducers == 2

\* Total number of observer calls made in one run.
MaxCalls == 4

\* bounded::<EventData>(10000), observer_ffi.rs:114, scaled down.
ChannelCapacity == 2

\* `current_batch_size >= 10000`, observer_ffi.rs:168, scaled down.
BatchSizeLimit == 3

\* Duration::from_secs(1) of the timer flush, observer_ffi.rs:191, in ticks.
TimeThreshold == 2

\* Duration::from_secs(1), the timeout on an empty batch, observer_ffi.rs:149.
LongTimeout == 2

\* Duration::from_millis(100), the timeout on a non-empty batch,
\* observer_ffi.rs:152.
ShortTimeout == 1

\* Calls of XatuFFI::send_event_batch made outside the batch loop (FfiSpec).
MaxApiCalls == 2

\* Calls of XatuFFI::close made outside Drop for XatuObserver (FfiSpec).
MaxCloseCalls == 2

\* Width in bits of u32, the type of EventData's message_size, scaled down.
SizeBits == 3

\* Width in bits of u64, i64 and usize, the types of timestamp_millis,
\* timestamp_ms and the message_size argument, scaled down.
WordBits == 4

(* --------------------------- derived sets ------------------------------ *)

Producers == 1..NumProducers

\* The five entry points of XatuObserverTrait.
Kinds == {"block", "attestation", "aggregate_and_proof",
          "blob_sidecar", "data_column_sidecar"}

\* Return codes of the sink's Init and SendEventBatch (c_int): 0, the four
\* codes the bridge names, and two it does not name, one of them positive.
SinkCodes == {0, -1, -2, -3, -4, -5, 1}

Max2(a, b) == IF a >= b THEN a ELSE b

Min2(a, b) == IF a <= b THEN a ELSE b

TimeCap == Max2(TimeThreshold, LongTimeout)

RECURSIVE Flatten(_)
Flatten(ss) == IF ss = <<>> THEN <<>> ELSE Head(ss) \o Flatten(Tail(ss))

\* What `held` holds for a producer that is not inside a send.
NoEvent == [id |-> 0, kind |-> "none"]

(* ------------------------------ state ---------------------------------- *)

VARIABLES
    network_info,          \* argument of new_with_full_config: "None" / "Some"
    pcC,                   \* constructing thread
    pcW,                   \* worker thread
    pcD,                   \* thread dropping the observer
    pcP,                   \* producer threads: "idle" / "blocked"
    held,                  \* the event a blocked producer is sending
    initialized,           \* Arc<AtomicBool>
    init_channel,          \* std::sync::mpsc channel: "empty" / "Ok" / "Err"
    event_channel,         \* crossbeam bounded channel: queued events
    senders_alive,         \* some Sender<EventData> still exists
    ffi_mutex,             \* FFI_MUTEX: "free" or the holder
    in_sink,               \* <<thread, entry point>> now inside the sink
    event_batch,           \* worker local: Vec<EventData>
    batch,                 \* worker local: the batch taken for a flush
    trigger,               \* which flush is in progress: "size" / "timer"
    time_since_last_batch, \* worker local, read at the loop head
    timeout,               \* worker local, chosen at the loop head
    age,                   \* Instant::now() - last_batch_time
    waited,                \* Instant::now() - now (of this iteration)
    ncalls,                \* observer calls made so far
    enqueued,              \* history: events accepted by the channel, in order
    sends,                 \* history: the calls of send_event_batch
    init_calls,            \* history: calls of the sink's Init
    init_returns,          \* history: the codes Init returned, in order
    shutdown_calls,        \* history: calls of the sink's Shutdown
    events_sent,           \* metrics: XATU_EVENTS_SENT{event_type="batch"}
    obs_result,            \* history: result of each producer's last call
    slots_per_epoch,       \* NetworkInfo.slots_per_epoch of the observer
    last_event,            \* the event an entry point built last: <<>> or <<e>>
    close_calls,           \* history: calls of XatuFFI::close
    entry,                 \* overlay: which init function the host called
    xatu_config,           \* overlay: XATU_CONFIG and the file it names
    disable_xatu,          \* overlay: DISABLE_XATU is set
    pcI,                   \* overlay: position of the init function
    config,                \* overlay: the XatuConfig init goes on with
    init_result,           \* overlay: what the init function returned
    exporter,              \* XatuChain.exporter: "None" / "Some"
    chain_result,          \* result of each thread's last XatuChain call
    init_outcome,          \* the Result init_with_runtime returned
    api_result,            \* code and Result of the last send_event_batch
                           \* called outside the batch loop
    last_args              \* message_size and timestamp_millis of the last call

vars == <<network_info, pcC, pcW, pcD, pcP, held, initialized, init_channel,
          event_channel, senders_alive, ffi_mutex, in_sink, event_batch,
          batch, trigger, time_since_last_batch, timeout, age, waited,
          ncalls, enqueued, sends, init_calls, init_returns, shutdown_calls,
          events_sent, obs_result, slots_per_epoch, last_event,
          close_calls, entry, xatu_config, disable_xatu, pcI, config,
          init_result, exporter, chain_result, init_outcome, api_result,
          last_args>>

ctorVars == <<network_info, pcC>>

prodVars == <<pcP, held, ncalls, enqueued, obs_result>>

timeVars == <<time_since_last_batch, timeout, age, waited>>

loopVars == <<event_batch, batch, trigger>>

histVars == <<sends, init_calls, init_returns, shutdown_calls, events_sent>>

overlayVars == <<entry, xatu_config, disable_xatu, pcI, config, init_result>>

chainVars == <<exporter, chain_result>>

\* What the callers of the crate's functions hand in and get back.
apiVars == <<exporter, chain_result, init_outcome, api_result, last_args>>

\* The observer is called directly, not through an XatuChain.
NoChain ==
    /\ exporter = "None"
    /\ chain_result = [p \in Producers |-> "none"]

\* new_with_full_config is called directly, not by the overlay.
NoOverlay ==
    /\ entry = "none"
    /\ xatu_config = "unset"
    /\ disable_xatu = FALSE
    /\ pcI = "none"
    /\ config = "none"
    /\ init_result = "none"

Init ==
    /\ network_info \in {"None", "Some"}
    /\ pcC = "new"
    /\ pcW = "unspawned"
    /\ pcD = "none"
    /\ pcP = [p \in Producers |-> "idle"]
    /\ held = [p \in Producers |-> NoEvent]
    /\ initialized = FALSE
    /\ init_channel = "empty"
    /\ event_channel = <<>>
    /\ senders_alive = FALSE
    /\ ffi_mutex = "free"
    /\ in_sink = {}
    /\ event_batch = <<>>
    /\ batch = <<>>
    /\ trigger = "none"
    /\ time_since_last_batch = 0
    /\ timeout = 0
    /\ age = 0
    /\ waited = 0
    /\ ncalls = 0
    /\ enqueued = <<>>
    /\ sends = <<>>
    /\ init_calls = 0
    /\ init_returns = <<>>
    /\ shutdown_calls = 0
    /\ events_sent = 0
    /\ obs_result = [p \in Producers |-> "none"]
    /\ slots_per_epoch = 32
    /\ last_event = <<>>
    /\ close_calls = 0
    /\ NoOverlay
    /\ NoChain
    /\ init_outcome = "none"
    /\ api_result = <<>>
    /\ last_args = <<>>

(* ------------------- XatuFFI: result mappings (ffi.rs) ----------------- *)

\* Mutant of InitResult: the messages of -2 and -3 are exchanged.
InitResultSwapped(code) ==
    CASE code = 0  -> "Ok"
      [] code = -1 -> "Failed to parse configuration"
      [] code = -2 -> "Failed to start sink"
      [] code = -3 -> "Failed to create sink"
      [] code = -4 -> "Network info not provided"
      [] OTHER     -> "Failed to initialize: error code"

\* Mutant of InitResult: the return code of Init is ignored.
InitResultIgnored(code) == "Ok"

\* Mutant of InitResult: the code for missing network info is let through.
InitResultLenient(code) == IF code \in {0, -4} THEN "Ok" ELSE "Failed"

\* match result { 0 => Ok(()), -1 => Err(..), ... } of init_with_runtime.
InitResult(code) ==
    CASE code = 0  -> "Ok"
      [] code = -1 -> "Failed to parse configuration"
      [] code = -2 -> "Failed to create sink"
      [] code = -3 -> "Failed to start sink"
      [] code = -4 -> "Network info not provided"
      [] OTHER     -> "Failed to initialize: error code"

\* Mutant of SendResult: a positive code is taken for success.
SendResultSigned(code) ==
    CASE code >= 0 -> "Ok"
      [] code = -1 -> "Forwarder not initialized"
      [] code = -2 -> "Failed to parse event data"
      [] code = -3 -> "Failed to send event"
      [] code = -4 -> "Server returned error"
      [] OTHER     -> "Unknown error code"

\* match result { 0 => Ok(()), -1 => Err(..), ... } of send_event_batch.
SendResult(code) ==
    CASE code = 0  -> "Ok"
      [] code = -1 -> "Forwarder not initialized"
      [] code = -2 -> "Failed to parse event data"
      [] code = -3 -> "Failed to send event"
      [] code = -4 -> "Server returned error"
      [] OTHER     -> "Unknown error code"

(* ------------------ new_with_full_config: the caller ------------------- *)

\* Mutant of NetworkInfoMissing: the check is left out.
NetworkInfoNeverMissing(ni) == FALSE

\* `if network_info.is_none() { return Err(..) }`
NetworkInfoMissing(ni) == ni = "None"

\* Lines 105-118: the network-info check, the two channels, thread::spawn.
CtorStart ==
    /\ pcC = "new"
    /\ IF NetworkInfoMissing(network_info)
         THEN /\ pcC' = "err"
              /\ UNCHANGED <<pcW, senders_alive>>
         ELSE /\ pcC' = "wait_init"
              /\ pcW' = "spawned"
              /\ senders_alive' = TRUE
    /\ UNCHANGED <<network_info, pcD, initialized, init_channel, event_channel,
                   ffi_mutex, in_sink>>
    /\ UNCHANGED <<prodVars, timeVars, loopVars, histVars>>
    /\ UNCHANGED <<overlayVars, slots_per_epoch, last_event, close_calls>>
    /\ UNCHANGED apiVars

\* Mutant of InitReported: the constructor does not wait for the worker.
InitNotAwaited(ch) == TRUE

\* init_receiver.recv() returns once the worker has sent the result.
InitReported(ch) == ch # "empty"

\* Lines 222-242: init_receiver.recv() and the result of the constructor.
\* On Err the local event_sender is dropped with the frame.
CtorRecv ==
    /\ pcC = "wait_init"
    /\ InitReported(init_channel)
    /\ IF init_channel = "Ok"
         THEN /\ pcC' = "ok"
              /\ pcD' = "alive"
              /\ UNCHANGED senders_alive
         ELSE /\ pcC' = "err"
              /\ senders_alive' = FALSE
              /\ UNCHANGED pcD
    /\ init_channel' = "empty"
    /\ UNCHANGED <<network_info, pcW, initialized, event_channel, ffi_mutex,
                   in_sink>>
    /\ UNCHANGED <<prodVars, timeVars, loopVars, histVars>>
    /\ UNCHANGED <<overlayVars, slots_per_epoch, last_event, close_calls>>
    /\ UNCHANGED apiVars

(* -------------- the worker thread: initialisation (118-141) ------------ *)

\* XatuFFI::init_with_runtime up to the call of Init: FFI_MUTEX.lock(), Init().
WorkerInitCall ==
    /\ pcW = "spawned"
    /\ ffi_mutex = "free"
    /\ ffi_mutex' = "worker"
    /\ in_sink' = in_sink \cup {<<"worker", "Init">>}
    /\ init_calls' = init_calls + 1
    /\ pcW' = "in_Init"
    /\ UNCHANGED <<ctorVars, pcD, initialized, init_channel, event_channel,
                   senders_alive, sends, init_returns, shutdown_calls, events_sent>>
    /\ UNCHANGED <<prodVars, timeVars, loopVars>>
    /\ UNCHANGED <<overlayVars, slots_per_epoch, last_event, close_calls>>
    /\ UNCHANGED apiVars

\* Mutant of FlagAfterInit: the flag is never stored.
FlagNeverStored(flag, res) == flag

\* Mutant of FlagAfterInit: the flag is stored whatever Init returned.
FlagAlwaysStored(flag, res) == TRUE

\* `Ok(()) => { .. initialized_for_thread.store(true, ..) }`: the only
\* store to the flag in the crate; the Err arm leaves it alone.
FlagAfterInit(flag, res) == IF res = "Ok" THEN TRUE ELSE flag

\* Init returns `code`; the guard is released when init_with_runtime returns.
\* Ok: initialized.store(true).  Err: init_sender.send(Err(e)); return.
WorkerInitReturn(code) ==
    /\ pcW = "in_Init"
    /\ in_sink' = in_sink \ {<<"worker", "Init">>}
    /\ ffi_mutex' = "free"
    /\ init_returns' = Append(init_returns, code)
    /\ initialized' = FlagAfterInit(initialized, InitResult(code))
    /\ IF InitResult(code) = "Ok"
         THEN /\ pcW' = "init_stored"
              /\ UNCHANGED init_channel
         ELSE /\ init_channel' = "Err"
              /\ pcW' = "returned"
    /\ init_outcome' = InitResult(code)
    /\ UNCHANGED <<ctorVars, pcD, event_channel, senders_alive, sends,
                   init_calls, shutdown_calls, events_sent>>
    /\ UNCHANGED <<prodVars, timeVars, loopVars>>
    /\ UNCHANGED <<overlayVars, slots_per_epoch, last_event, close_calls>>
    /\ UNCHANGED <<chainVars, api_result, last_args>>

\* init_sender.send(Ok(())), then the locals of the batch loop:
\* event_batch = Vec::new(), last_batch_time = Instant::now().
WorkerInitReport ==
    /\ pcW = "init_stored"
    /\ init_channel' = "Ok"
    /\ event_batch' = <<>>
    /\ age' = 0
    /\ pcW' = "loop"
    /\ UNCHANGED <<ctorVars, pcD, initialized, event_channel, senders_alive,
                   ffi_mutex, in_sink, batch, trigger, time_since_last_batch,
                   timeout, waited>>
    /\ UNCHANGED <<prodVars, histVars>>
    /\ UNCHANGED <<overlayVars, slots_per_epoch, last_event, close_calls>>
    /\ UNCHANGED apiVars

(* ---------------- the worker thread: batch loop (142-219) -------------- *)

\* Mutant of ChooseTimeout: the long timeout whatever the batch holds.
ChooseTimeoutFixed(b) == LongTimeout

\* `if event_batch.is_empty() { from_secs(1) } else { from_millis(100) }`
ChooseTimeout(b) == IF b = <<>> THEN LongTimeout ELSE ShortTimeout

\* Mutant of SizeLimitReached: the size of the batch is never tested.
SizeLimitNever(n) == FALSE

\* Mutant of SizeLimitReached: `>` for `>=`.
SizeLimitExceeded(n) == n > BatchSizeLimit

\* `if current_batch_size >= 10000`
SizeLimitReached(n) == n >= BatchSizeLimit

\* Mutant of TimerFlushDue: the elapsed time is not tested.
TimerFlushAnyTime(tsl, b, init) == b # <<>> /\ init

\* Mutant of TimerFlushDue: the batch is not tested for emptiness.
TimerFlushEmptyToo(tsl, b, init) == tsl >= TimeThreshold /\ init

\* `time_since_last_batch >= from_secs(1) && !event_batch.is_empty()
\*    && initialized_for_thread.load()`
TimerFlushDue(tsl, b, init) == tsl >= TimeThreshold /\ b # <<>> /\ init

\* Mutant of Push: the event is put at the front of the batch.
PushFront(b, ev) == <<ev>> \o b

\* Mutant of Push: the event is put into the batch twice.
PushTwice(b, ev) == b \o <<ev, ev>>

\* event_batch.push(event)
Push(b, ev) == Append(b, ev)

\* The record of one call of XatuFFI::send_event_batch.
SendRecord(b, trig) == [events |-> b, trigger |-> trig, result |-> "pending"]

\* Lines 144-153: now, time_since_last_batch, timeout.
LoopHead ==
    /\ pcW = "loop"
    /\ time_since_last_batch' = age
    /\ waited' = 0
    /\ timeout' = ChooseTimeout(event_batch)
    /\ pcW' = "recv"
    /\ UNCHANGED <<ctorVars, pcD, initialized, init_channel, event_channel,
                   senders_alive, ffi_mutex, in_sink, age>>
    /\ UNCHANGED <<prodVars, loopVars, histVars>>
    /\ UNCHANGED <<overlayVars, slots_per_epoch, last_event, close_calls>>
    /\ UNCHANGED apiVars

\* std::mem::take(&mut event_batch) and the call of send_event_batch(batch).
TakeAndSend(b, trig) ==
    /\ batch' = b
    /\ event_batch' = <<>>
    /\ trigger' = trig
    /\ sends' = Append(sends, SendRecord(b, trig))
    /\ pcW' = "send_call"
    /\ UNCHANGED timeVars

\* The end of an iteration that did not flush: the locals of the iteration
\* go out of scope.
EndIteration ==
    /\ pcW' = "loop"
    /\ time_since_last_batch' = 0
    /\ timeout' = 0
    /\ waited' = 0
    /\ UNCHANGED <<age, batch, trigger, sends>>

\* recv_timeout returned Ok(event): lines 156-188, up to the send.
RecvOk ==
    /\ pcW = "recv"
    /\ event_channel # <<>>
    /\ event_channel' = Tail(event_channel)
    /\ LET nb == Push(event_batch, Head(event_channel))
       IN IF SizeLimitReached(Len(nb))
            THEN TakeAndSend(nb, "size")
            ELSE /\ event_batch' = nb
                 /\ EndIteration
    /\ UNCHANGED <<ctorVars, pcD, initialized, init_channel, senders_alive,
                   ffi_mutex, in_sink, init_calls, init_returns, shutdown_calls,
                   events_sent>>
    /\ UNCHANGED prodVars
    /\ UNCHANGED <<overlayVars, slots_per_epoch, last_event, close_calls>>
    /\ UNCHANGED apiVars

\* recv_timeout returned Err(Timeout): lines 189-213, up to the send.
RecvTimeout ==
    /\ pcW = "recv"
    /\ event_channel = <<>>
    /\ senders_alive
    /\ waited >= timeout
    /\ IF TimerFlushDue(time_since_last_batch, event_batch, initialized)
         THEN TakeAndSend(event_batch, "timer")
         ELSE /\ EndIteration
              /\ UNCHANGED event_batch
    /\ UNCHANGED <<ctorVars, pcD, initialized, init_channel, event_channel,
                   senders_alive, ffi_mutex, in_sink, init_calls, init_returns,
                   shutdown_calls, events_sent>>
    /\ UNCHANGED prodVars
    /\ UNCHANGED <<overlayVars, slots_per_epoch, last_event, close_calls>>
    /\ UNCHANGED apiVars

\* Mutant of Disconnected: the closure is seen while events are queued.
DisconnectedWhenClosed(ch, alive) == ~alive

\* Mutant of Disconnected: the closure of the channel is never seen.
NeverDisconnected(ch, alive) == FALSE

\* crossbeam recv_timeout returns Err(Disconnected) when the channel is
\* empty and every sender is gone.
Disconnected(ch, alive) == ch = <<>> /\ ~alive

\* recv_timeout returned Err(Disconnected): every sender is gone and the
\* channel is empty.  `break`: the thread ends, event_batch is dropped.
RecvDisconnected ==
    /\ pcW = "recv"
    /\ Disconnected(event_channel, senders_alive)
    /\ pcW' = "stopped"
    /\ UNCHANGED <<ctorVars, pcD, initialized, init_channel, event_channel,
                   senders_alive, ffi_mutex, in_sink>>
    /\ UNCHANGED <<prodVars, timeVars, loopVars, histVars>>
    /\ UNCHANGED <<overlayVars, slots_per_epoch, last_event, close_calls>>
    /\ UNCHANGED apiVars

\* The result of the flush is written to the record of the call: Ok, or Err
\* whose message the loop only logs.
SetResult(ss, res) ==
    [ss EXCEPT ![Len(ss)].result = IF res = "Ok" THEN "Ok" ELSE "Err"]

\* Mutant of AfterFlush: a failed flush ends the loop.
FlushStopsOnErr(res) == IF res = "Ok" THEN "loop" ELSE "stopped"

\* Where the worker goes after `match XatuFFI::send_event_batch(batch)`:
\* the Ok arm and the Err arm both fall through to `last_batch_time = now`
\* and the next iteration of the loop.
AfterFlush(res) == "loop"

\* Mutant of EventsSentAfter: the events of a failed flush are counted too.
EventsSentAlways(c, trig, res, n) == IF trig # "api" THEN c + n ELSE c

\* Mutant of EventsSentAfter: batches are counted, not events.
EventsSentBatches(c, trig, res, n) ==
    IF res = "Ok" /\ trig # "api" THEN c + 1 ELSE c

\* `crate::metrics::inc_events_sent_batch(count)` in the Ok arm of the two
\* flush blocks of the batch loop, and counter.inc_by(count as u64) in
\* metrics.rs: the counter after a flush of n events that returned res.
\* send_event_batch itself does not count: a call made elsewhere (trigger
\* "api") leaves the counter alone.
EventsSentAfter(c, trig, res, n) ==
    IF res = "Ok" /\ trig # "api" THEN c + n ELSE c

\* Mutant of LastBatchReset: a failed flush leaves last_batch_time alone.
LastBatchResetOnOk(res, a, w) == IF res = "Ok" THEN w ELSE a

\* `last_batch_time = now;` after the match on the result of the flush, in
\* both flush blocks: the time since last_batch_time (a before) becomes the
\* time since `now` was read (w).
LastBatchReset(res, a, w) == w

\* After send_event_batch returned `res`: lines 173-186 / 198-211.
\* Ok: inc_events_sent_batch(count).  Always: last_batch_time = now.
AfterSend(res) ==
    /\ sends' = SetResult(sends, res)
    /\ events_sent' = EventsSentAfter(events_sent, trigger, res, Len(batch))
    /\ age' = LastBatchReset(res, age, waited)
    /\ waited' = 0
    /\ time_since_last_batch' = 0
    /\ timeout' = 0
    /\ batch' = <<>>
    /\ trigger' = "none"
    /\ pcW' = AfterFlush(res)

\* What a caller of send_event_batch outside the batch loop is handed: the
\* Result, kept with the code of the sink it came from (none on the early
\* return).
\* The worker only logs the Result of its flushes, and api_result keeps
\* the one it had.
Returned(trig, codes, res, old) ==
    IF trig = "api" THEN <<[code |-> codes, result |-> res]>> ELSE old

\* Mutant of EmptyBatchReturns: the early return is left out.
EmptyBatchSent(events) == FALSE

\* `if events.is_empty() { return Ok(()); }`
EmptyBatchReturns(events) == events = <<>>

\* XatuFFI::send_event_batch up to the call of the sink: an empty batch
\* returns Ok at once; otherwise FFI_MUTEX.lock(), SendEventBatch().
SendCall ==
    /\ pcW = "send_call"
    /\ IF EmptyBatchReturns(batch)
         THEN /\ AfterSend("Ok")
              /\ api_result' = Returned(trigger, <<>>, "Ok", api_result)
              /\ UNCHANGED <<ffi_mutex, in_sink>>
         ELSE /\ ffi_mutex = "free"
              /\ ffi_mutex' = "worker"
              /\ in_sink' = in_sink \cup {<<"worker", "SendEventBatch">>}
              /\ pcW' = "in_Send"
              /\ UNCHANGED <<timeVars, batch, trigger, sends, events_sent,
                             api_result>>
    /\ UNCHANGED <<ctorVars, pcD, initialized, init_channel, event_channel,
                   senders_alive, event_batch, init_calls, init_returns,
                   shutdown_calls>>
    /\ UNCHANGED prodVars
    /\ UNCHANGED <<overlayVars, slots_per_epoch, last_event, close_calls>>
    /\ UNCHANGED <<chainVars, init_outcome, last_args>>

\* SendEventBatch returns `code`; the guard is released on return.
SendReturn(code) ==
    /\ pcW = "in_Send"
    /\ in_sink' = in_sink \ {<<"worker", "SendEventBatch">>}
    /\ ffi_mutex' = "free"
    /\ AfterSend(SendResult(code))
    /\ api_result' = Returned(trigger, <<code>>, SendResult(code), api_result)
    /\ UNCHANGED <<ctorVars, pcD, initialized, init_channel, event_channel,
                   senders_alive, event_batch, init_calls, init_returns,
                   shutdown_calls>>
    /\ UNCHANGED prodVars
    /\ UNCHANGED <<overlayVars, slots_per_epoch, last_event, close_calls>>
    /\ UNCHANGED <<chainVars, init_outcome, last_args>>

(* ---------------------------- time passes ------------------------------ *)

InLoop == pcW \in {"loop", "recv", "send_call", "in_Send"}

Tick ==
    /\ InLoop
    /\ age' = Min2(age + 1, TimeCap)
    /\ waited' = IF pcW = "loop" THEN waited ELSE Min2(waited + 1, TimeCap)
    /\ <<age', waited'>> # <<age, waited>>
    /\ UNCHANGED <<ctorVars, pcW, pcD, initialized, init_channel,
                   event_channel, senders_alive, ffi_mutex, in_sink,
                   time_since_last_batch, timeout>>
    /\ UNCHANGED <<prodVars, loopVars, histVars>>
    /\ UNCHANGED <<overlayVars, slots_per_epoch, last_event, close_calls>>
    /\ UNCHANGED apiVars

(* ------------- the observer entry points (251-664), producers ---------- *)

\* Mutant of ObserverGate: the network info is not looked at.
ObserverGateNoInfo(init, ni) == IF ~init THEN "skip" ELSE "send"

\* Mutant of ObserverGate: the readiness flag is not read.
ObserverGateNoFlag(init, ni) == IF ni = "None" THEN "error" ELSE "send"

\* What an entry point does after building its arguments:
\*   `if !self.initialized.load() { return Ok }`
\*   `match self.network_info { None => return Error(..) }`
\*   otherwise the event is built and handed to sender.send(event).
ObserverGate(init, ni) ==
    IF ~init THEN "skip"
    ELSE IF ni = "None" THEN "error"
    ELSE "send"

\* The receiving end of the event channel is gone: the worker thread ended.
ReceiverGone == pcW \in {"returned", "stopped"}

\* Mutant of SendBlocks: the channel takes an event whatever it holds.
SendNeverBlocks(ch) == FALSE

\* sender.send(event) on the bounded channel: it completes at once when
\* there is room or the receiver is gone, and waits otherwise.
SendBlocks(ch) == Len(ch) >= ChannelCapacity

\* `slot_u64 / network_info.slots_per_epoch` on u64: the division panics
\* when the divisor is zero.
DivisionPanics(spe) == spe = 0

\* Mutant of Epoch: the epoch length of mainnet whatever the network.
EpochMainnet(k, slot, spe) == slot \div 32

\* `let epoch = slot_u64 / network_info.slots_per_epoch;`, the same line in
\* each of the five entry points.
Epoch(k, slot, spe) == slot \div spe

\* Mutant of AsU32: the size saturates at the largest u32.
AsU32Saturating(n) == IF n >= 2^SizeBits THEN 2^SizeBits - 1 ELSE n

\* `message_size as u32` on a usize: the low bits are kept.
AsU32(n) == n % (2^SizeBits)

\* Mutant of AsI64: the timestamp saturates at the largest i64.
AsI64Saturating(n) == IF n >= 2^(WordBits - 1) THEN 2^(WordBits - 1) - 1 ELSE n

\* `timestamp_millis as i64` on a u64: the same bits read in two's
\* complement.
AsI64(n) == IF n < 2^(WordBits - 1) THEN n ELSE n - 2^WordBits

\* The numeric fields of the EventData an entry point builds from its
\* arguments: slot, epoch, message_size and timestamp_ms (the field is
\* named timestamp in Attestation and AggregateAndProof).
EventPayload(k, slot, spe, sz, ts) ==
    [slot |-> slot, epoch |-> Epoch(k, slot, spe),
     message_size |-> AsU32(sz), timestamp_ms |-> AsI64(ts)]

\* The arguments message_size and timestamp_millis of a call.
CallArgs(sz, ts) == [message_size |-> sz, timestamp_millis |-> ts]

\* Mutant of Send: the event is put into the channel twice.
SendTwice(ch, e) == ch \o <<e, e>>

\* A completed sender.send(event): the event is the last of the channel.
Send(ch, e) == Append(ch, e)

\* An entry point of kind k called on thread p with an object of slot s,
\* message_size sz and timestamp_millis ts.  In code order: the readiness
\* flag, the network info, the epoch, the event, sender.send(event).
EntryPoint(p, k, s, sz, ts) ==
    /\ pcC = "ok"
    /\ pcD = "alive"
    /\ pcP[p] = "idle"
    /\ ncalls < MaxCalls
    /\ ncalls' = ncalls + 1
    /\ LET ev == [id |-> ncalls + 1, kind |-> k]
           gate == ObserverGate(initialized, network_info)
       IN CASE gate = "skip" ->
                 /\ obs_result' = [obs_result EXCEPT ![p] = "Ok"]
                 /\ UNCHANGED <<pcP, held, event_channel, enqueued, last_event,
                                last_args>>
            [] gate = "error" ->
                 /\ obs_result' = [obs_result EXCEPT ![p] = "Error"]
                 /\ UNCHANGED <<pcP, held, event_channel, enqueued, last_event,
                                last_args>>
            [] gate = "send" /\ DivisionPanics(slots_per_epoch) ->
                 /\ pcP' = [pcP EXCEPT ![p] = "panicked"]
                 /\ obs_result' = [obs_result EXCEPT ![p] = "none"]
                 /\ UNCHANGED <<held, event_channel, enqueued, last_event,
                                last_args>>
            [] gate = "send" /\ ~DivisionPanics(slots_per_epoch) ->
                 /\ last_event' = <<EventPayload(k, s, slots_per_epoch, sz, ts)>>
                 /\ last_args' = <<CallArgs(sz, ts)>>
                 /\ CASE ReceiverGone ->
                           /\ obs_result' = [obs_result EXCEPT ![p] = "Ok"]
                           /\ UNCHANGED <<pcP, held, event_channel, enqueued>>
                      [] ~ReceiverGone /\ SendBlocks(event_channel) ->
                           /\ pcP' = [pcP EXCEPT ![p] = "blocked"]
                           /\ held' = [held EXCEPT ![p] = ev]
                           /\ obs_result' = [obs_result EXCEPT ![p] = "none"]
                           /\ UNCHANGED <<event_channel, enqueued>>
                      [] OTHER ->
                           /\ event_channel' = Send(event_channel, ev.id)
                           /\ enqueued' = Append(enqueued, ev.id)
                           /\ obs_result' = [obs_result EXCEPT ![p] = "Ok"]
                           /\ UNCHANGED <<pcP, held>>
    /\ UNCHANGED <<ctorVars, pcW, pcD, initialized, init_channel,
                   senders_alive, ffi_mutex, in_sink>>
    /\ UNCHANGED <<timeVars, loopVars, histVars>>
    /\ UNCHANGED <<overlayVars, slots_per_epoch, close_calls>>
    /\ UNCHANGED <<init_outcome, api_result>>

\* An entry point of XatuObserverTrait called on the observer itself.
ObsCall(p, k, s) == EntryPoint(p, k, s, 0, 0) /\ UNCHANGED chainVars

\* A producer waiting inside sender.send(event) is woken: there is room, or
\* the receiver is gone (send returns Err, which is logged).
SendCompletes(p) ==
    /\ pcP[p] = "blocked"
    /\ ReceiverGone \/ ~SendBlocks(event_channel)
    /\ IF ReceiverGone
         THEN UNCHANGED <<event_channel, enqueued>>
         ELSE /\ event_channel' = Send(event_channel, held[p].id)
              /\ enqueued' = Append(enqueued, held[p].id)
    /\ pcP' = [pcP EXCEPT ![p] = "idle"]
    /\ held' = [held EXCEPT ![p] = NoEvent]
    /\ obs_result' = [obs_result EXCEPT ![p] = "Ok"]
    /\ UNCHANGED <<ctorVars, pcW, pcD, initialized, init_channel,
                   senders_alive, ffi_mutex, in_sink, ncalls>>
    /\ UNCHANGED <<timeVars, loopVars, histVars>>
    /\ UNCHANGED <<overlayVars, slots_per_epoch, last_event, close_calls>>
    /\ UNCHANGED <<init_outcome, api_result, last_args>>

\* The waiting call was made on the observer itself.
ObsWake(p) == SendCompletes(p) /\ UNCHANGED chainVars

(* ------------------- Drop for XatuObserver (785-792) ------------------- *)

\* Mutant of DropCloses: drop closes the sink whatever the flag says.
DropAlwaysCloses(init) == TRUE

\* `if self.initialized.load(Ordering::Relaxed) { .. XatuFFI::close(); }`
DropCloses(init) == init

\* The observer is dropped when nothing borrows it: no entry point is
\* running.  `if self.initialized.load() { XatuFFI::close() }`: close calls
\* the sink's Shutdown and takes no lock.
DropBegin ==
    /\ pcD = "alive"
    /\ \A p \in Producers : pcP[p] = "idle"
    /\ pcD' = "in_drop"
    /\ IF DropCloses(initialized)
         THEN /\ in_sink' = in_sink \cup {<<"dropper", "Shutdown">>}
              /\ shutdown_calls' = shutdown_calls + 1
              /\ close_calls' = close_calls + 1
         ELSE UNCHANGED <<in_sink, shutdown_calls, close_calls>>
    /\ UNCHANGED <<ctorVars, pcW, initialized, init_channel, event_channel,
                   senders_alive, ffi_mutex, sends, init_calls, init_returns,
                   events_sent>>
    /\ UNCHANGED <<prodVars, timeVars, loopVars>>
    /\ UNCHANGED <<overlayVars, slots_per_epoch, last_event>>
    /\ UNCHANGED apiVars

\* Shutdown has returned; after the body of drop the fields are dropped,
\* event_sender among them: the last sender of the event channel.
DropEnd ==
    /\ pcD = "in_drop"
    /\ in_sink' = in_sink \ {<<"dropper", "Shutdown">>}
    /\ senders_alive' = FALSE
    /\ pcD' = "dropped"
    /\ UNCHANGED <<ctorVars, pcW, initialized, init_channel, event_channel,
                   ffi_mutex>>
    /\ UNCHANGED <<prodVars, timeVars, loopVars, histVars>>
    /\ UNCHANGED <<overlayVars, slots_per_epoch, last_event, close_calls>>
    /\ UNCHANGED apiVars

(* --------------------------- specification ----------------------------- *)

WorkerStep ==
    \/ WorkerInitCall
    \/ \E code \in SinkCodes : WorkerInitReturn(code)
    \/ WorkerInitReport
    \/ LoopHead
    \/ RecvOk
    \/ RecvTimeout
    \/ RecvDisconnected
    \/ SendCall
    \/ \E code \in SinkCodes : SendReturn(code)

Next ==
    \/ CtorStart
    \/ CtorRecv
    \/ WorkerInitCall
    \/ \E code \in SinkCodes : WorkerInitReturn(code)
    \/ WorkerInitReport
    \/ LoopHead
    \/ RecvOk
    \/ RecvTimeout
    \/ RecvDisconnected
    \/ SendCall
    \/ \E code \in SinkCodes : SendReturn(code)
    \/ Tick
    \/ \E p \in Producers, k \in Kinds : ObsCall(p, k, 0)
    \/ \E p \in Producers : ObsWake(p)
    \/ DropBegin
    \/ DropEnd

Spec == Init /\ [][Next]_vars

\* The worker thread is scheduled, the sink's calls return, time passes.
FairSpec == Spec /\ WF_vars(WorkerStep) /\ WF_vars(Tick) /\ WF_vars(CtorRecv)

(* ---- the entry points on an observer of any field values (ObsSpec) ----- *)

\* new_with_full_config hands out an observer only after initialized was
\* stored true and with Some(network_info), so the first two branches of
\* an entry point are never taken under Spec.  ObsSpec runs the entry
\* points, the batch loop and Drop from every value the fields
\* `initialized` and `network_info` of an XatuObserver can hold.
\* Constructed: the rest of the state when new_with_full_config has
\* returned Ok and the worker is at the head of the batch loop.
Constructed ==
    /\ pcC = "ok"
    /\ pcW = "loop"
    /\ pcD = "alive"
    /\ pcP = [p \in Producers |-> "idle"]
    /\ held = [p \in Producers |-> NoEvent]
    /\ init_channel = "empty"
    /\ event_channel = <<>>
    /\ senders_alive = TRUE
    /\ ffi_mutex = "free"
    /\ in_sink = {}
    /\ event_batch = <<>>
    /\ batch = <<>>
    /\ trigger = "none"
    /\ time_since_last_batch = 0
    /\ timeout = 0
    /\ age = 0
    /\ waited = 0
    /\ ncalls = 0
    /\ enqueued = <<>>
    /\ sends = <<>>
    /\ init_calls = 1
    /\ init_returns = <<0>>
    /\ shutdown_calls = 0
    /\ events_sent = 0
    /\ obs_result = [p \in Producers |-> "none"]
    /\ last_event = <<>>
    /\ close_calls = 0
    /\ NoOverlay
    /\ init_outcome = "Ok"
    /\ api_result = <<>>
    /\ last_args = <<>>

ObsInit ==
    /\ network_info \in {"None", "Some"}
    /\ initialized \in BOOLEAN
    /\ slots_per_epoch = 32
    /\ Constructed
    /\ NoChain

ObsNext ==
    \/ LoopHead
    \/ RecvOk
    \/ RecvTimeout
    \/ RecvDisconnected
    \/ SendCall
    \/ \E code \in SinkCodes : SendReturn(code)
    \/ Tick
    \/ \E p \in Producers, k \in Kinds : ObsCall(p, k, 0)
    \/ \E p \in Producers : ObsWake(p)
    \/ DropBegin
    \/ DropEnd

ObsSpec == ObsInit /\ [][ObsNext]_vars

(* -------------- the content of the events built (EventSpec) ------------- *)

\* Spec and ObsSpec follow where an event goes, not what it holds: their
\* entry points are called with objects of slot 0 on a network of 32 slots
\* per epoch.  EventSpec runs the same entry points, batch loop and Drop
\* on an observer constructed with any NetworkInfo (new_with_full_config
\* does not look at its fields) and on objects of any slot.

\* Values of NetworkInfo.slots_per_epoch (u64).
SlotsPerEpochValues == {0, 8, 32}

\* Slots of the objects handed to the entry points.
Slots == {0, 32, 65}

EventInit ==
    /\ network_info = "Some"
    /\ initialized = TRUE
    /\ slots_per_epoch \in SlotsPerEpochValues
    /\ Constructed
    /\ NoChain

EventNext ==
    \/ LoopHead
    \/ RecvOk
    \/ RecvTimeout
    \/ RecvDisconnected
    \/ SendCall
    \/ \E code \in SinkCodes : SendReturn(code)
    \/ Tick
    \/ \E p \in Producers, k \in Kinds, s \in Slots : ObsCall(p, k, s)
    \/ \E p \in Producers : ObsWake(p)
    \/ DropBegin
    \/ DropEnd

EventSpec == EventInit /\ [][EventNext]_vars

(* ---------- the sizes and timestamps of the events (CastSpec) ----------- *)

\* Spec, ObsSpec and EventSpec call the entry points with message_size 0
\* and timestamp_millis 0.  CastSpec calls them, on a ready observer whose
\* worker receives and flushes by size, with values on both sides of what
\* the fields of EventData can hold.

\* Values of the argument message_size (usize): the ends of the range of
\* u32, the first values beyond it, and the largest usize.
Sizes == {0, 2^SizeBits - 1, 2^SizeBits, 2^SizeBits + 1, 2^WordBits - 1}

\* Values of the argument timestamp_millis (u64): the ends of the range of
\* the non-negative i64, the first value beyond it, and the largest u64.
Timestamps == {0, 2^(WordBits - 1) - 1, 2^(WordBits - 1), 2^WordBits - 1}

CastInit ==
    /\ network_info = "Some"
    /\ initialized = TRUE
    /\ slots_per_epoch = 32
    /\ Constructed
    /\ NoChain

\* An entry point called on the observer with message_size sz and
\* timestamp_millis ts.
CastCall(p, k, sz, ts) == EntryPoint(p, k, 0, sz, ts) /\ UNCHANGED chainVars

CastNext ==
    \/ LoopHead
    \/ RecvOk
    \/ SendCall
    \/ \E code \in SinkCodes : SendReturn(code)
    \/ \E p \in Producers, k \in Kinds, sz \in Sizes, ts \in Timestamps :
           CastCall(p, k, sz, ts)
    \/ \E p \in Producers : ObsWake(p)

CastSpec == CastInit /\ [][CastNext]_vars

(* ------------- the functions of XatuFFI on their own (FfiSpec) --------- *)

\* send_event_batch and close are associated functions of the unit struct
\* XatuFFI: any thread running code of the crate can call them, with any
\* arguments (the module ffi is private to the crate), and dropping an
\* XatuFFI value calls close.  FfiSpec runs them as functions, on a sink
\* that was initialised, next to one XatuObserver and its Drop.  The
\* calling thread of send_event_batch is followed by pcW as the worker's
\* flush is, the other thread calling close is "host".

\* The batches a direct caller passes to send_event_batch.
ApiBatches == {<<>>, <<1>>, <<1, 2>>}

FfiInit ==
    /\ network_info = "Some"
    /\ initialized = TRUE
    /\ slots_per_epoch = 32
    /\ Constructed
    /\ NoChain

\* A call XatuFFI::send_event_batch(b).
ApiSend(b) ==
    /\ pcW = "loop"
    /\ Len(sends) < MaxApiCalls
    /\ TakeAndSend(b, "api")
    /\ UNCHANGED <<ctorVars, pcD, initialized, init_channel, event_channel,
                   senders_alive, ffi_mutex, in_sink, init_calls, init_returns,
                   shutdown_calls, events_sent>>
    /\ UNCHANGED prodVars
    /\ UNCHANGED <<overlayVars, slots_per_epoch, last_event, close_calls>>
    /\ UNCHANGED apiVars

\* XatuFFI::close(), also run by Drop for XatuFFI: `unsafe { Shutdown(); }`,
\* up to the call of the sink.
CloseCall ==
    /\ <<"host", "Shutdown">> \notin in_sink
    /\ close_calls < MaxCloseCalls
    /\ close_calls' = close_calls + 1
    /\ shutdown_calls' = shutdown_calls + 1
    /\ in_sink' = in_sink \cup {<<"host", "Shutdown">>}
    /\ UNCHANGED <<ctorVars, pcW, pcD, initialized, init_channel,
                   event_channel, senders_alive, ffi_mutex, sends, init_calls,
                   init_returns, events_sent>>
    /\ UNCHANGED <<prodVars, timeVars, loopVars>>
    /\ UNCHANGED <<overlayVars, slots_per_epoch, last_event>>
    /\ UNCHANGED apiVars

\* Shutdown has returned to that call of close.
CloseReturn ==
    /\ <<"host", "Shutdown">> \in in_sink
    /\ in_sink' = in_sink \ {<<"host", "Shutdown">>}
    /\ UNCHANGED <<ctorVars, pcW, pcD, initialized, init_channel,
                   event_channel, senders_alive, ffi_mutex>>
    /\ UNCHANGED <<prodVars, timeVars, loopVars, histVars>>
    /\ UNCHANGED <<overlayVars, slots_per_epoch, last_event, close_calls>>
    /\ UNCHANGED apiVars

FfiNext ==
    \/ \E b \in ApiBatches : ApiSend(b)
    \/ SendCall
    \/ \E code \in SinkCodes : SendReturn(code)
    \/ CloseCall
    \/ CloseReturn
    \/ DropBegin
    \/ DropEnd

FfiSpec == FfiInit /\ [][FfiNext]_vars

(* ------------- the entry points of XatuChain (ChainSpec) ---------------- *)

\* crates/xatu/src/chain.rs: XatuChain holds Option<Arc<dyn Xatu<E>>> and
\* hands each call to the exporter when there is one.  The exporter is an
\* XatuObserver, whose impl of Xatu<E> calls the entry point of
\* XatuObserverTrait and drops its result.  ChainSpec runs the methods of a
\* chain with and without an exporter, next to the batch loop, on an
\* observer of any field values.

\* XatuChain::is_enabled: self.exporter.is_some()
ChainIsEnabled(exp) == exp = "Some"

\* Mutant of ChainResult: the result of the observer is handed on.
ChainResultForwarded(obsres) == obsres

\* `ObserverResult::Ok`, the last expression of every method of XatuChain;
\* obsres is what the observer returned, dropped by `let _ =` in the impl
\* of Xatu<E>.
ChainResult(obsres) == "Ok"

\* A method of XatuChain called on thread p: `if let Some(exporter) =
\* &self.exporter { exporter.on_gossip_..(..); } ObserverResult::Ok`.  The
\* method has not returned while the observer's send waits.
ChainCall(p, k) ==
    /\ IF ChainIsEnabled(exporter)
         THEN /\ EntryPoint(p, k, 0, 0, 0)
              /\ chain_result' =
                     [chain_result EXCEPT ![p] =
                         IF pcP'[p] = "idle" THEN ChainResult(obs_result'[p])
                                            ELSE "none"]
         ELSE /\ pcP[p] = "idle"
              /\ ncalls < MaxCalls
              /\ ncalls' = ncalls + 1
              /\ chain_result' = [chain_result EXCEPT ![p] = ChainResult("none")]
              /\ UNCHANGED <<ctorVars, pcW, pcD, pcP, held, initialized,
                             init_channel, event_channel, senders_alive,
                             ffi_mutex, in_sink, enqueued, obs_result>>
              /\ UNCHANGED <<timeVars, loopVars, histVars>>
              /\ UNCHANGED <<overlayVars, slots_per_epoch, last_event,
                             close_calls>>
              /\ UNCHANGED <<init_outcome, api_result, last_args>>
    /\ UNCHANGED exporter

\* The observer's send has completed; the method of XatuChain returns.
ChainWake(p) ==
    /\ SendCompletes(p)
    /\ chain_result' = [chain_result EXCEPT ![p] = ChainResult(obs_result'[p])]
    /\ UNCHANGED exporter

ChainInit ==
    /\ exporter \in {"None", "Some"}
    /\ chain_result = [p \in Producers |-> "none"]
    /\ network_info \in {"None", "Some"}
    /\ initialized \in BOOLEAN
    /\ slots_per_epoch = 32
    /\ Constructed

ChainNext ==
    \/ LoopHead
    \/ RecvOk
    \/ RecvTimeout
    \/ SendCall
    \/ \E code \in SinkCodes : SendReturn(code)
    \/ Tick
    \/ \E p \in Producers, k \in Kinds : ChainCall(p, k)
    \/ \E p \in Producers : ChainWake(p)

ChainSpec == ChainInit /\ [][ChainNext]_vars

(* ------------- the overlay's init functions (BootSpec) ------------------ *)

\* overlay/xatu/src/init.rs: init and init_with_chain_spec_and_genesis read
\* the environment, load the configuration and create the exporter through
\* shim.rs, which calls new_with_full_config.  BootSpec runs one call of
\* one of them, for every environment, up to its return.

\* The two init functions (init_with_chain_spec calls the second).
Entries == {"init", "init_with_chain_spec_and_genesis"}

\* XATU_CONFIG: unset, or the path of a file that loads with enabled = true
\* or enabled = false, of a file that is missing, or that does not parse.
XatuConfigValues == {"unset", "enabled", "disabled", "missing", "malformed"}

\* XatuConfig::from_file: read_to_string and serde_yaml::from_str, each
\* error mapped to Err(String).
FromFile(xc) == IF xc \in {"enabled", "disabled"} THEN "Ok" ELSE "Err"

\* `let config = if let Ok(config_path) = std::env::var("XATU_CONFIG") {
\*      match XatuConfig::from_file(&config_path) {
\*          Ok(cfg) => cfg, Err(e) => { error!(..); XatuConfig::enabled() } }
\*  } else { .. XatuConfig::enabled() };`
LoadedConfig(xc) ==
    IF xc = "unset" THEN "default:enabled"
    ELSE IF FromFile(xc) = "Ok" THEN "file:" \o xc
    ELSE "default:enabled"

\* XatuConfig::is_enabled
IsEnabled(cfg) == cfg \in {"default:enabled", "file:enabled"}

\* Mutant of DisabledByEnv: DISABLE_XATU is honoured with a config path too.
DisabledByEnvAnyway(xc, d) == d

\* `if std::env::var("DISABLE_XATU").is_ok() { return None }`, in the else
\* branch of `if let Ok(config_path) = std::env::var("XATU_CONFIG")`.
DisabledByEnv(xc, d) == xc = "unset" /\ d

\* Mutant of ShimNetworkInfo: init passes network info as well.
ShimNetworkInfoAlways(e) == "Some"

\* The network info the shim passes to new_with_full_config:
\* create_exporter_from_config (called by init) passes None,
\* create_exporter_with_network_info passes Some(network_info).
ShimNetworkInfo(e) == IF e = "init" THEN "None" ELSE "Some"

\* What the init function returns when the exporter was not created.
NoExporter(e) == IF e = "init" THEN "None" ELSE "Err"

BootInit ==
    /\ entry \in Entries
    /\ xatu_config \in XatuConfigValues
    /\ disable_xatu \in BOOLEAN
    /\ pcI = "start"
    /\ config = "none"
    /\ init_result = "none"
    /\ network_info = "None"
    /\ pcC = "uncalled"
    /\ pcW = "unspawned"
    /\ pcD = "none"
    /\ pcP = [p \in Producers |-> "idle"]
    /\ held = [p \in Producers |-> NoEvent]
    /\ initialized = FALSE
    /\ init_channel = "empty"
    /\ event_channel = <<>>
    /\ senders_alive = FALSE
    /\ ffi_mutex = "free"
    /\ in_sink = {}
    /\ event_batch = <<>>
    /\ batch = <<>>
    /\ trigger = "none"
    /\ time_since_last_batch = 0
    /\ timeout = 0
    /\ age = 0
    /\ waited = 0
    /\ ncalls = 0
    /\ enqueued = <<>>
    /\ sends = <<>>
    /\ init_calls = 0
    /\ init_returns = <<>>
    /\ shutdown_calls = 0
    /\ events_sent = 0
    /\ obs_result = [p \in Producers |-> "none"]
    /\ slots_per_epoch = 32
    /\ last_event = <<>>
    /\ close_calls = 0
    /\ NoChain
    /\ init_outcome = "none"
    /\ api_result = <<>>
    /\ last_args = <<>>

\* init.rs 18-44 / 71-93: the environment, the configuration, is_enabled.
\* DISABLE_XATU is read only when XATU_CONFIG is not set.
LoadConfig ==
    /\ pcI = "start"
    /\ IF DisabledByEnv(xatu_config, disable_xatu)
         THEN /\ init_result' = "None"
              /\ pcI' = "done"
              /\ UNCHANGED config
         ELSE /\ config' = LoadedConfig(xatu_config)
              /\ IF IsEnabled(LoadedConfig(xatu_config))
                   THEN /\ pcI' = "create"
                        /\ UNCHANGED init_result
                   ELSE /\ init_result' = "None"
                        /\ pcI' = "done"
    /\ UNCHANGED <<entry, xatu_config, disable_xatu>>
    /\ UNCHANGED <<ctorVars, pcW, pcD, initialized, init_channel,
                   event_channel, senders_alive, ffi_mutex, in_sink>>
    /\ UNCHANGED <<prodVars, timeVars, loopVars, histVars>>
    /\ UNCHANGED <<slots_per_epoch, last_event, close_calls>>
    /\ UNCHANGED apiVars

\* shim.rs create_exporter_from_config / create_exporter_with_network_info
\* up to the call of new_with_full_config: None for a disabled config,
\* otherwise the constructor is called, without network info by init and
\* with it by init_with_chain_spec_and_genesis.
CreateExporter ==
    /\ pcI = "create"
    /\ IF ~IsEnabled(config)
         THEN /\ init_result' = NoExporter(entry)
              /\ pcI' = "done"
              /\ UNCHANGED <<network_info, pcC>>
         ELSE /\ network_info' = ShimNetworkInfo(entry)
              /\ pcC' = "new"
              /\ pcI' = "constructing"
              /\ UNCHANGED init_result
    /\ UNCHANGED <<entry, xatu_config, disable_xatu, config>>
    /\ UNCHANGED <<pcW, pcD, initialized, init_channel, event_channel,
                   senders_alive, ffi_mutex, in_sink>>
    /\ UNCHANGED <<prodVars, timeVars, loopVars, histVars>>
    /\ UNCHANGED <<slots_per_epoch, last_event, close_calls>>
    /\ UNCHANGED apiVars

\* new_with_full_config has returned to the shim: Ok(middleware) is wrapped
\* (XatuChain::with_exporter) and returned, Err(e) is logged and the shim
\* panics.
ExporterReturn ==
    /\ pcI = "constructing"
    /\ pcC \in {"ok", "err"}
    /\ init_result' = IF pcC = "ok" THEN "Some" ELSE "panic"
    /\ exporter' = IF pcC = "ok" THEN "Some" ELSE exporter
    /\ pcI' = "done"
    /\ UNCHANGED <<entry, xatu_config, disable_xatu, config>>
    /\ UNCHANGED <<ctorVars, pcW, pcD, initialized, init_channel,
                   event_channel, senders_alive, ffi_mutex, in_sink>>
    /\ UNCHANGED <<prodVars, timeVars, loopVars, histVars>>
    /\ UNCHANGED <<slots_per_epoch, last_event, close_calls>>
    /\ UNCHANGED <<chain_result, init_outcome, api_result, last_args>>

BootNext ==
    \/ LoadConfig
    \/ CreateExporter
    \/ CtorStart
    \/ CtorRecv
    \/ WorkerInitCall
    \/ \E code \in SinkCodes : WorkerInitReturn(code)
    \/ WorkerInitReport
    \/ ExporterReturn

BootSpec == BootInit /\ [][BootNext]_vars

\* The worker thread and the constructing thread are scheduled and the
\* sink's Init returns.
FairBootSpec == BootSpec /\ WF_vars(WorkerStep) /\ WF_vars(CtorRecv)

(* ------------------------------ claims --------------------------------- *)

\* The events of all calls of send_event_batch so far, in call order.
SentEvents == Flatten([i \in 1..Len(sends) |-> sends[i].events])

NoDuplicates(s) == \A i, j \in 1..Len(s) : i # j => s[i] # s[j]

\* C1: no producer thread is ever suspended inside an observer entry point
\* waiting for room in the event channel: on a full channel the call drops
\* the event and returns at once.
C1_NoProducerWaits == \A p \in Producers : pcP[p] # "blocked"

\* C2 as stated: every event the channel accepted is in exactly one emitted
\* batch, in enqueue order.  Stated on the final result: when the worker has
\* stopped, the emitted batches hold exactly the accepted events.
C2_ExactlyOneBatch == pcW = "stopped" => SentEvents = enqueued

\* C2 as amended: the emitted batches in call order, then the in-progress
\* batch, then the channel contents, are exactly the accepted events in
\* enqueue order, each once.  So an accepted event is in at most one emitted
\* batch, batches keep the enqueue order, and an event is in none only while
\* it waits in the channel or the in-progress batch, or when it was in the
\* partial batch the worker dropped on channel closure.
C2_AtMostOneBatchInOrder ==
    /\ SentEvents \o event_batch \o event_channel = enqueued
    /\ NoDuplicates(enqueued)

\* Four events, the fourth call enqueued before the third (whose producer
\* waited), all emitted in two batches.
C2_Witness ==
    /\ Len(sends) = 2
    /\ enqueued = <<1, 2, 4, 3>>
    /\ SentEvents = enqueued
    /\ sends[2].result = "Ok"

\* C3: the in-progress batch never rests at the size threshold: the receive
\* that brings it there takes it and calls send_event_batch in the same
\* step, whatever the elapsed time.  A size-triggered call carries exactly
\* BatchSizeLimit events, and a batch below the threshold is only ever sent
\* by the timer.
C3_SizeTrigger ==
    /\ Len(event_batch) < BatchSizeLimit
    /\ \A i \in 1..Len(sends) :
          /\ sends[i].trigger = "size" => Len(sends[i].events) = BatchSizeLimit
          /\ Len(sends[i].events) < BatchSizeLimit => sends[i].trigger = "timer"
    /\ pcW \in {"send_call", "in_Send"} /\ trigger = "size"
          => batch = sends[Len(sends)].events /\ Len(batch) = BatchSizeLimit

\* A size flush started before the time threshold had elapsed.
C3_Witness ==
    /\ pcW = "send_call"
    /\ trigger = "size"
    /\ Len(batch) = BatchSizeLimit
    /\ time_since_last_batch < TimeThreshold
    /\ age < TimeThreshold

\* A timer flush is made only when at least TimeThreshold has passed since
\* last_batch_time, the instant the code records for the last flush, and
\* only with a non-empty batch.
C4_TimerSafety ==
    pcW = "send_call" /\ trigger = "timer"
        => /\ time_since_last_batch >= TimeThreshold
           /\ age >= TimeThreshold
           /\ batch # <<>>

C5_TimerNotStarved ==
    [][(/\ pcW = "recv"
        /\ event_batch # <<>>
        /\ time_since_last_batch >= TimeThreshold
        /\ pcW' # "recv")
          => pcW' \in {"send_call", "stopped"}]_vars

\* C6: an entry point that reads the readiness flag as false returns Ok,
\* enqueues nothing and does not wait; none of its events reaches
\* send_event_batch.
C6_ReadinessGating ==
    ~initialized =>
        /\ \A p \in Producers : pcP[p] = "idle" /\ obs_result[p] \in {"none", "Ok"}
        /\ enqueued = <<>>
        /\ event_channel = <<>>
        /\ event_batch = <<>>
        /\ sends = <<>>

C6_Witness ==
    /\ ~initialized
    /\ ncalls = MaxCalls
    /\ \A p \in Producers : obs_result[p] = "Ok"

\* C7: new_with_full_config returns only after the worker reported the
\* result of Init: Ok only when Init returned success and the flag is
\* already true, Err when Init failed.
C7_ConstructionHandshake ==
    /\ pcC = "ok" => initialized /\ init_returns = <<0>>
    /\ pcC = "err" /\ network_info = "Some" => (init_returns # <<>> /\ init_returns # <<0>>)
    /\ (init_returns # <<>> /\ init_returns # <<0>>) => pcC # "ok" /\ ~initialized

C7_Witness == pcC = "ok" /\ initialized /\ init_returns = <<0>> /\ pcW = "loop"

\* C8: without network info the construction fails and does nothing else:
\* no worker thread, no call of Init, no channel, no observer.
C8_MissingNetworkInfo ==
    network_info = "None" =>
        /\ pcC \in {"new", "err"}
        /\ pcW = "unspawned"
        /\ pcD = "none"
        /\ init_calls = 0
        /\ in_sink = {}
        /\ ~initialized
        /\ ~senders_alive
        /\ ncalls = 0
        /\ enqueued = <<>>
        /\ sends = <<>>

C8_Witness == network_info = "None" /\ pcC = "err"

\* C9: Init is called at most once, once for every observer handed out;
\* it has returned success before the readiness flag is true and before any
\* call of send_event_batch or SendEventBatch.
C9_InitOnceBeforeSend ==
    /\ init_calls <= 1
    /\ pcC = "ok" => init_calls = 1
    /\ initialized => init_calls = 1 /\ init_returns = <<0>>
    /\ sends # <<>> => init_calls = 1 /\ init_returns = <<0>>
    /\ <<"worker", "SendEventBatch">> \in in_sink => init_returns = <<0>>
    /\ <<"worker", "Init">> \in in_sink => ~initialized /\ sends = <<>>

C9_Witness ==
    /\ <<"worker", "SendEventBatch">> \in in_sink
    /\ init_calls = 1
    /\ init_returns = <<0>>
    /\ initialized

\* C10: at most one thread is inside the sink (Init, SendEventBatch,
\* Shutdown) at any time.
C10_SinkCallsSerialized == Cardinality(in_sink) <= 1

\* C11: shutdown is idempotent: however often XatuFFI::close is called
\* (directly, by Drop for XatuFFI or by Drop for XatuObserver), the sink's
\* Shutdown is reached at most once.
C11_ShutdownIdempotent == shutdown_calls <= 1

\* The events of the first i calls of send_event_batch, in call order.
SentUpTo(i) == Flatten([j \in 1..i |-> sends[j].events])

\* The events of the calls of send_event_batch after the i-th.
SentAfter(i) == Flatten([j \in 1..(Len(sends) - i) |-> sends[i + j].events])

\* C12: a failed send_event_batch neither stops the loop nor is retried.
\* The worker stops only when the channel is closed; while a flush is in
\* progress the next batch is empty; and for every failed call, the later
\* calls and the in-progress batch hold exactly the events dequeued after
\* the failed batch, so none of its events is sent again.
C12_FailedFlushDiscarded ==
    /\ pcW = "stopped" => ~senders_alive
    /\ pcW \in {"send_call", "in_Send"} => event_batch = <<>>
    /\ \A i \in 1..Len(sends) :
          sends[i].result = "Err" =>
              /\ Len(SentUpTo(Len(sends))) + Len(event_batch) <= Len(enqueued)
              /\ SentAfter(i) \o event_batch =
                     SubSeq(enqueued, Len(SentUpTo(i)) + 1,
                            Len(SentUpTo(Len(sends))) + Len(event_batch))
              /\ \A a \in 1..Len(sends[i].events) :
                    \A b \in 1..Len(SentAfter(i) \o event_batch \o event_channel) :
                        sends[i].events[a] #
                            (SentAfter(i) \o event_batch \o event_channel)[b]

\* A failed flush, then a later flush that succeeded with other events.
C12_Witness ==
    /\ Len(sends) = 2
    /\ sends[1].result = "Err"
    /\ sends[2].result = "Ok"
    /\ sends[2].events # <<>>
    /\ pcW = "loop"

\* C13: once every sender of the event channel is gone, the worker leaves
\* the batch loop, and the step that leaves it passes nothing to
\* send_event_batch: the partial batch it holds stays unsent, also
\* afterwards.
C13_CooperativeShutdown ==
    /\ (InLoop /\ ~senders_alive) ~> (pcW = "stopped")
    /\ [][(pcW = "stopped" \/ pcW' = "stopped")
             => sends' = sends /\ event_batch' = event_batch]_vars

\* The worker has stopped on the closed channel holding a partial batch
\* that was never sent.
C13_Witness ==
    /\ pcW = "stopped"
    /\ ~senders_alive
    /\ event_batch # <<>>
    /\ SentEvents \o event_batch = enqueued

C15_NoPanic == (\A p \in Producers : pcP[p] # "panicked") /\ pcW # "panicked"

\* C16: a configuration file that is missing or does not parse is fatal to
\* the init function: it goes on with no other configuration, constructs
\* no bridge, and returns the error to its caller.
C16_ConfigErrorsFatal ==
    xatu_config \in {"missing", "malformed"} =>
        /\ config = "none"
        /\ pcC = "uncalled"
        /\ pcW = "unspawned"
        /\ init_calls = 0
        /\ pcI = "done" => init_result = "Err"

\* C17: send_event_batch is never called with an empty batch: every call
\* made so far carried at least one event, a flush in progress holds at
\* least one, and a state where the sink sees an empty batch is never
\* reached; a timeout on an empty batch therefore made no call.
C17_NoEmptyFlush ==
    /\ \A i \in 1..Len(sends) : sends[i].events # <<>>
    /\ pcW \in {"send_call", "in_Send"} => batch # <<>>
    /\ Len(sends) > 0 => enqueued # <<>>

\* The receive has timed out on an empty batch with the time threshold
\* passed, and no call of send_event_batch was ever made.
C17_Witness ==
    /\ pcW = "recv"
    /\ event_batch = <<>>
    /\ event_channel = <<>>
    /\ waited >= timeout
    /\ timeout = LongTimeout
    /\ time_since_last_batch >= TimeThreshold
    /\ initialized
    /\ senders_alive
    /\ sends = <<>>

\* C18: send_event_batch on an empty sequence returns Ok and does not
\* touch the sink: the step that handles the call takes no lock and enters
\* no sink function, and no thread is ever inside SendEventBatch with an
\* empty batch.
C18_EmptyBatchNoContact ==
    /\ [](<<"worker", "SendEventBatch">> \in in_sink => batch # <<>>)
    /\ [][(pcW = "send_call" /\ batch = <<>> /\ pcW' # pcW)
             => /\ sends'[Len(sends')].result = "Ok"
                /\ sends'[Len(sends')].events = <<>>
                /\ pcW' = "loop"
                /\ in_sink' = in_sink
                /\ ffi_mutex' = ffi_mutex
                /\ events_sent' = events_sent]_vars

\* A direct call with an empty sequence has returned Ok; the sink was
\* never entered.
C18_Witness ==
    /\ Len(sends) = 1
    /\ sends[1].events = <<>>
    /\ sends[1].result = "Ok"
    /\ pcW = "loop"
    /\ in_sink = {}
    /\ ffi_mutex = "free"

\* C19: the readiness flag is false at first and changes only once, from
\* false to true, in the worker's step that receives success from Init;
\* no other step (entry point, flush, drop) writes it, so it never goes
\* back to false.
C19_FlagMonotonic ==
    /\ ~initialized
    /\ [][initialized' # initialized
             => /\ ~initialized
                /\ initialized'
                /\ pcW = "in_Init"
                /\ init_returns' = <<0>>
                /\ ncalls' = ncalls]_vars

\* The flag is still true after the observer was dropped and the worker
\* has stopped.
C19_Witness ==
    /\ initialized
    /\ pcD = "dropped"
    /\ pcW = "stopped"
    /\ ncalls > 0

\* C20: the event channel never holds more events than its capacity.
C20_ChannelBounded == Len(event_channel) <= ChannelCapacity

\* The channel is full and a producer is waiting to add one more event.
C20_Witness ==
    /\ Len(event_channel) = ChannelCapacity
    /\ \E p \in Producers : pcP[p] = "blocked"

\* s is a subsequence of t: the elements of s occur in t in the same order.
RECURSIVE IsSubsequence(_, _)
IsSubsequence(s, t) ==
    IF s = <<>> THEN TRUE
    ELSE IF t = <<>> THEN FALSE
    ELSE IF Head(s) = Head(t) THEN IsSubsequence(Tail(s), Tail(t))
    ELSE IsSubsequence(s, Tail(t))

\* The events the worker has taken out of the channel, in the order it
\* took them: the channel hands events out in the order it accepted them.
Dequeued == SubSeq(enqueued, 1, Len(enqueued) - Len(event_channel))

\* C21: the events passed to send_event_batch, in call order, are a
\* subsequence of the dequeue order and no event is passed twice; batches
\* are sent in the order they were formed: a batch is handed over as soon
\* as it is taken, so only the last call can be unfinished and it carries
\* the batch just taken.
C21_OrderedAtMostOnce ==
    /\ IsSubsequence(SentEvents, Dequeued)
    /\ NoDuplicates(SentEvents)
    /\ \A i \in 1..(Len(sends) - 1) : sends[i].result # "pending"
    /\ pcW \in {"send_call", "in_Send"} =>
           /\ sends[Len(sends)].result = "pending"
           /\ sends[Len(sends)].events = batch

\* Two batches were sent and a dequeued remainder was not: what was sent is
\* a proper subsequence of what was dequeued.
C21_Witness ==
    /\ pcW = "stopped"
    /\ Len(sends) = 2
    /\ event_batch # <<>>
    /\ SentEvents # Dequeued
    /\ sends[1].events # <<>>
    /\ sends[2].events # <<>>

\* C22: on a ready bridge a call returns Error exactly when the observer
\* has no network info, and then nothing is enqueued and no caller waits;
\* with network info every call that has returned returned Ok.
C22_ErrorOnlyWithoutNetworkInfo ==
    initialized =>
        /\ network_info = "None" =>
               /\ \A p \in Producers :
                      /\ obs_result[p] \in {"none", "Error"}
                      /\ pcP[p] = "idle"
               /\ ncalls > 0 => \E p \in Producers : obs_result[p] = "Error"
               /\ enqueued = <<>>
               /\ event_channel = <<>>
               /\ last_event = <<>>
        /\ network_info = "Some" =>
               \A p \in Producers : obs_result[p] \in {"none", "Ok"}

\* Every call on a ready observer without network info returned Error.
C22_Witness ==
    /\ initialized
    /\ network_info = "None"
    /\ ncalls = MaxCalls
    /\ \A p \in Producers : obs_result[p] = "Error"
    /\ enqueued = <<>>

\* C23: a step of an entry point (the call, or the completion of a send
\* that waited) writes neither the readiness flag nor the network info nor
\* the in-progress batch, enters no sink function, takes no lock, and
\* leaves the channel as it was or with one event added at its end.
C23_ObserverCallFrame ==
    [][(ncalls' # ncalls \/ pcP' # pcP) =>
          /\ initialized' = initialized
          /\ network_info' = network_info
          /\ slots_per_epoch' = slots_per_epoch
          /\ event_batch' = event_batch
          /\ batch' = batch
          /\ in_sink' = in_sink
          /\ ffi_mutex' = ffi_mutex
          /\ sends' = sends
          /\ init_calls' = init_calls
          /\ shutdown_calls' = shutdown_calls
          /\ senders_alive' = senders_alive
          /\ \/ event_channel' = event_channel
             \/ /\ Len(event_channel') = Len(event_channel) + 1
                /\ SubSeq(event_channel', 1, Len(event_channel)) = event_channel
      ]_vars

\* Calls were made while the worker held a batch and was inside the sink;
\* one event is queued, the batch and the sink call are as they were.
C23_Witness ==
    /\ initialized
    /\ network_info = "Some"
    /\ ncalls = MaxCalls
    /\ Len(event_channel) = 1
    /\ pcW = "in_Send"
    /\ Len(batch) = BatchSizeLimit
    /\ \A p \in Producers : obs_result[p] = "Ok"

\* The sink's Init has returned a failure code.
InitFailed == init_returns # <<>> /\ init_returns[1] # 0

\* What holds in every state after Init returned a failure.
C24_AfterInitFailure ==
    InitFailed =>
        /\ ~initialized
        /\ pcW = "returned"
        /\ pcC \in {"wait_init", "err"}
        /\ pcC = "wait_init" <=> init_channel = "Err"
        /\ pcD = "none"
        /\ sends = <<>>
        /\ in_sink = {}
        /\ event_batch = <<>>
        /\ ncalls = 0

\* C24: when Init returns a failure the flag stays false, the worker thread
\* has returned without entering the batch loop, send_event_batch and
\* SendEventBatch are never called, no observer is handed out, and
\* new_with_full_config returns Err.
C24_InitFailure ==
    /\ []C24_AfterInitFailure
    /\ InitFailed ~> (pcC = "err")

\* The constructor has returned Err after Init returned a code the bridge
\* does not name.
C24_Witness ==
    /\ init_returns = <<-5>>
    /\ pcC = "err"
    /\ pcW = "returned"
    /\ ~initialized
    /\ ~senders_alive

\* C25: init_with_chain_spec_and_genesis does not abort: when the bridge
\* cannot be created for an enabled configuration it returns Err, and it
\* returns Ok(None) only for a disabled feature.
C25_CreationFailureReturned ==
    (entry = "init_with_chain_spec_and_genesis" /\ pcI = "done") =>
        /\ init_result # "panic"
        /\ InitFailed => init_result = "Err"
        /\ init_result = "None" =>
               \/ xatu_config = "disabled"
               \/ xatu_config = "unset" /\ disable_xatu

\* C26: while the worker waits in recv_timeout, the timeout of the
\* iteration is the long one exactly when the in-progress batch is empty
\* and the short one exactly when it holds an event.
C26_AdaptiveTimeout ==
    pcW = "recv" =>
        /\ timeout = LongTimeout <=> event_batch = <<>>
        /\ timeout = ShortTimeout <=> event_batch # <<>>

\* The worker waits with the short timeout on a batch of one event, after
\* it waited with the long one on the empty batch that followed a flush.
C26_Witness ==
    /\ pcW = "recv"
    /\ Len(event_batch) = 1
    /\ timeout = ShortTimeout
    /\ Len(sends) = 1

\* C27: the drop of an XatuObserver calls the sink's Shutdown exactly when
\* the readiness flag is true, once; an observer whose flag is false is
\* dropped without a call, and before the drop there is none.
C27_DropShutdown ==
    /\ pcD \in {"none", "alive"} => shutdown_calls = 0
    /\ pcD \in {"in_drop", "dropped"} =>
           shutdown_calls = (IF initialized THEN 1 ELSE 0)
    /\ <<"dropper", "Shutdown">> \in in_sink <=> (pcD = "in_drop" /\ initialized)
    /\ close_calls = shutdown_calls

\* A ready observer that has worked was dropped: one call of Shutdown.
C27_Witness ==
    /\ pcD = "dropped"
    /\ initialized
    /\ shutdown_calls = 1
    /\ sends # <<>>

\* C28: the sink's Shutdown is called only once the worker has seen the
\* closed channel and left the batch loop, so that no SendEventBatch is in
\* flight or started after it.
C28_ShutdownAfterWorker == shutdown_calls > 0 => pcW = "stopped"

\* C29: the worker leaves the loop only on a channel that is closed and
\* empty, holding less than a full batch; everything it dequeued before,
\* also after the last sender was dropped, is in a sent batch or in the
\* remainder it holds when it stops.
C29_DrainBeforeStop ==
    /\ [](pcW = "stopped" =>
             /\ ~senders_alive
             /\ event_channel = <<>>
             /\ Len(event_batch) < BatchSizeLimit
             /\ SentEvents \o event_batch = enqueued)
    /\ [][(pcW # "stopped" /\ pcW' = "stopped") =>
             /\ pcW = "recv"
             /\ event_channel = <<>>
             /\ ~senders_alive]_vars

\* The last sender is gone and the events that were still queued have
\* filled the batch: a size flush is made after the closure.
C29_Witness ==
    /\ ~senders_alive
    /\ pcD = "dropped"
    /\ pcW = "send_call"
    /\ trigger = "size"
    /\ Len(batch) = BatchSizeLimit
    /\ event_channel # <<>>

\* C30: at the head of the loop the in-progress batch is below the size
\* threshold; every batch passed to send_event_batch holds between one
\* event and the threshold: exactly the threshold for a size flush, less
\* for a timer flush.
C30_BatchSizeBounds ==
    /\ pcW \in {"loop", "recv"} => Len(event_batch) < BatchSizeLimit
    /\ \A i \in 1..Len(sends) :
          /\ Len(sends[i].events) >= 1
          /\ Len(sends[i].events) <= BatchSizeLimit
          /\ sends[i].trigger \in {"size", "timer"}
          /\ sends[i].trigger = "size" <=> Len(sends[i].events) = BatchSizeLimit

\* A full batch was sent by the size trigger and a single event by the
\* timer.
C30_Witness ==
    /\ Len(sends) = 2
    /\ sends[1].trigger = "size"
    /\ Len(sends[1].events) = BatchSizeLimit
    /\ sends[2].trigger = "timer"
    /\ Len(sends[2].events) = 1

\* C31: whenever the worker thread is inside the batch loop the readiness
\* flag is true.  So the flag never decides the timer flush: while the
\* worker waits in recv_timeout the flush condition equals its first two
\* conjuncts; and no flush, by size or by timer, is made or in progress on
\* a bridge whose flag is false.
C31_FlagTrueInLoop ==
    /\ InLoop => initialized
    /\ pcW = "stopped" => initialized
    /\ pcW = "recv" =>
           (TimerFlushDue(time_since_last_batch, event_batch, initialized)
              <=> (time_since_last_batch >= TimeThreshold /\ event_batch # <<>>))
    /\ sends # <<>> => initialized
    /\ <<"worker", "SendEventBatch">> \in in_sink => initialized

\* A size flush was made and a timer flush is being made, the flag true.
C31_Witness ==
    /\ initialized
    /\ Len(sends) = 2
    /\ sends[1].trigger = "size"
    /\ pcW = "send_call"
    /\ trigger = "timer"
    /\ time_since_last_batch >= TimeThreshold

Waiting == {p \in Producers : pcP[p] = "blocked"}

\* C33: every method of XatuChain returns Ok.  Without an exporter a call
\* reaches no observer: nothing is built, enqueued or sent and no thread
\* waits; is_enabled is true exactly with an exporter.  With an exporter
\* each call is handed to the observer once (on a ready observer with
\* network info each call has enqueued one event or is waiting to), and the
\* method returns Ok whatever the observer returned, Error included.
C33_ChainAlwaysOk ==
    /\ \A p \in Producers : chain_result[p] \in {"none", "Ok"}
    /\ \A p \in Producers : obs_result[p] # "none" => chain_result[p] = "Ok"
    /\ ChainIsEnabled(exporter) <=> exporter # "None"
    /\ ~ChainIsEnabled(exporter) =>
           /\ \A p \in Producers : obs_result[p] = "none" /\ pcP[p] = "idle"
           /\ ncalls > 0 => \E p \in Producers : chain_result[p] = "Ok"
           /\ enqueued = <<>>
           /\ event_channel = <<>>
           /\ event_batch = <<>>
           /\ last_event = <<>>
           /\ sends = <<>>
           /\ in_sink = {}
    /\ (ChainIsEnabled(exporter) /\ initialized /\ network_info = "Some") =>
           ncalls = Len(enqueued) + Cardinality(Waiting)
    /\ (ChainIsEnabled(exporter) /\ initialized /\ network_info = "None") =>
           \A p \in Producers : chain_result[p] = "Ok" <=> obs_result[p] = "Error"

\* Every call was handed to an observer that returned Error, and every
\* method of the chain returned Ok.
C33_Witness ==
    /\ exporter = "Some"
    /\ initialized
    /\ network_info = "None"
    /\ ncalls = MaxCalls
    /\ \A p \in Producers : obs_result[p] = "Error" /\ chain_result[p] = "Ok"

\* C34: the Result of init_with_runtime follows the code the sink's Init
\* returned: 0 is Ok, -1 the parse failure, -2 the sink-construction
\* failure, -3 the sink-start failure, -4 the missing network info, every
\* other code the generic failure; Ok is returned for code 0 only, and
\* nothing is returned before Init has.
C34_InitResultMapping ==
    /\ init_returns = <<>> => init_outcome = "none"
    /\ init_returns # <<>> =>
           /\ Len(init_returns) = 1
           /\ init_returns[1] = 0 <=> init_outcome = "Ok"
           /\ init_returns[1] = -1 <=> init_outcome = "Failed to parse configuration"
           /\ init_returns[1] = -2 <=> init_outcome = "Failed to create sink"
           /\ init_returns[1] = -3 <=> init_outcome = "Failed to start sink"
           /\ init_returns[1] = -4 <=> init_outcome = "Network info not provided"
           /\ init_returns[1] \notin {0, -1, -2, -3, -4}
                 <=> init_outcome = "Failed to initialize: error code"
           /\ init_outcome # "Ok" => ~initialized /\ pcC # "ok"

\* Init returned a positive code: the generic failure, and the constructor
\* has returned Err.
C34_Witness ==
    /\ init_returns = <<1>>
    /\ init_outcome = "Failed to initialize: error code"
    /\ pcC = "err"
    /\ ~initialized

\* C35: the Result of send_event_batch on a non-empty batch follows the
\* code SendEventBatch returned: 0 is Ok, -1 bridge not initialized, -2 the
\* serialization failure, -3 the transmission failure, -4 the sink's
\* rejection, every other code the unknown error.  FFI_MUTEX is held
\* exactly while the call is inside SendEventBatch: it is free again when
\* the call has returned, whatever the code.
C35_SendResultMapping ==
    /\ ffi_mutex = "worker" <=> pcW = "in_Send"
    /\ ffi_mutex = "worker" <=> <<"worker", "SendEventBatch">> \in in_sink
    /\ pcW = "loop" => ffi_mutex = "free"
    /\ (pcW = "loop" /\ sends # <<>>) =>
           /\ api_result # <<>>
           /\ sends[Len(sends)].events # <<>> <=> api_result[1].code # <<>>
           /\ sends[Len(sends)].result = "Ok" <=> api_result[1].result = "Ok"
    /\ (api_result # <<>> /\ api_result[1].code # <<>>) =>
           LET code == api_result[1].code[1]
               res == api_result[1].result
           IN /\ code = 0 <=> res = "Ok"
              /\ code = -1 <=> res = "Forwarder not initialized"
              /\ code = -2 <=> res = "Failed to parse event data"
              /\ code = -3 <=> res = "Failed to send event"
              /\ code = -4 <=> res = "Server returned error"
              /\ code \notin {0, -1, -2, -3, -4} <=> res = "Unknown error code"

\* The second call, with two events, was answered by the sink with -3:
\* the transmission failure is returned and the lock is free.
C35_Witness ==
    /\ Len(sends) = 2
    /\ Len(sends[2].events) = 2
    /\ api_result = <<[code |-> <<-3>>, result |-> "Failed to send event"]>>
    /\ pcW = "loop"
    /\ ffi_mutex = "free"
    /\ in_sink = {}

\* The feature is disabled: the configuration loaded from the file has
\* enabled = false, or XATU_CONFIG is not set and DISABLE_XATU is.
Disabled ==
    \/ xatu_config = "disabled"
    \/ xatu_config = "unset" /\ disable_xatu

\* C36: init never hands out an observer.  For an enabled configuration it
\* calls new_with_full_config without network info, which fails before a
\* thread is spawned or the sink is called, and the shim panics; it returns
\* None exactly when the feature is disabled.
C36_InitWithoutNetworkInfo ==
    entry = "init" =>
        /\ init_result \in {"none", "None", "panic"}
        /\ exporter = "None"
        /\ network_info = "None"
        /\ pcC \in {"uncalled", "new", "err"}
        /\ pcW = "unspawned"
        /\ pcD = "none"
        /\ init_calls = 0
        /\ in_sink = {}
        /\ ~initialized
        /\ pcI = "done" =>
               /\ init_result = "None" <=> Disabled
               /\ init_result = "panic" <=> ~Disabled
               /\ init_result = "panic" => pcC = "err"

\* init was called with a configuration file that enables the feature and
\* has ended in the panic of the shim.
C36_Witness ==
    /\ entry = "init"
    /\ xatu_config = "enabled"
    /\ pcI = "done"
    /\ init_result = "panic"
    /\ pcC = "err"
    /\ pcW = "unspawned"

\* C37: an init function returns no observer (None, Ok(None)) exactly when
\* the feature is disabled, and then it has called neither the constructor
\* nor the sink and no thread was spawned.  DISABLE_XATU decides nothing
\* when XATU_CONFIG is set: with a file that enables the feature, or one
\* that does not load, the function goes on to create the exporter.
C37_Disabling ==
    /\ pcI = "done" => (init_result = "None" <=> Disabled)
    /\ Disabled => init_result \in {"none", "None"}
    /\ (Disabled \/ init_result = "None") =>
           /\ pcC = "uncalled"
           /\ pcW = "unspawned"
           /\ init_calls = 0
           /\ in_sink = {}
           /\ ~initialized
           /\ exporter = "None"
    /\ (xatu_config \in {"enabled", "missing", "malformed"} /\ pcI = "done") =>
           /\ init_result # "None"
           /\ pcC # "uncalled"
    /\ (xatu_config = "disabled" /\ pcI = "done") => init_result = "None"

\* DISABLE_XATU is set next to a configuration file that enables the
\* feature: the observer was created all the same.
C37_Witness ==
    /\ xatu_config = "enabled"
    /\ disable_xatu
    /\ pcI = "done"
    /\ init_result = "Some"
    /\ exporter = "Some"
    /\ pcW = "loop"

\* C38: the message_size of an event is the argument when the argument
\* fits the field and the argument modulo the field's range otherwise (the
\* field is within its range and differs from the argument by a multiple
\* of the range); the timestamp is the argument when it is within the
\* non-negative range of the signed field and otherwise the argument less
\* the range of the unsigned type, a negative value.
C38_Casts ==
    last_event # <<>> =>
        /\ last_args # <<>>
        /\ LET sz == last_args[1].message_size
               ts == last_args[1].timestamp_millis
               e == last_event[1]
           IN /\ sz < 2^SizeBits => e.message_size = sz
              /\ e.message_size >= 0
              /\ e.message_size < 2^SizeBits
              /\ \E q \in 0..(2^(WordBits - SizeBits)) :
                     sz = q * 2^SizeBits + e.message_size
              /\ ts < 2^(WordBits - 1) => e.timestamp_ms = ts
              /\ ts >= 2^(WordBits - 1) =>
                     /\ e.timestamp_ms < 0
                     /\ e.timestamp_ms = ts - 2^WordBits
              /\ e.timestamp_ms >= -(2^(WordBits - 1))
              /\ e.timestamp_ms < 2^(WordBits - 1)

\* An event was built from a size one beyond the field's range and from
\* the largest timestamp: size 1 and timestamp -1, and it was queued.
C38_Witness ==
    /\ last_args = <<CallArgs(2^SizeBits + 1, 2^WordBits - 1)>>
    /\ last_event # <<>>
    /\ last_event[1].message_size = 1
    /\ last_event[1].timestamp_ms = -1
    /\ enqueued # <<>>

\* The number of events in the calls of send_event_batch that returned Ok.
RECURSIVE EventsInOkSends(_)
EventsInOkSends(ss) ==
    IF ss = <<>> THEN 0
    ELSE (IF Head(ss).result = "Ok" THEN Len(Head(ss).events) ELSE 0)
             + EventsInOkSends(Tail(ss))

\* C39: the events-sent counter is the number of events in the flushes
\* that returned success.  It changes only in the step in which a flush
\* returns Ok, by the size of that batch; a failed flush, an entry point
\* (whether its event was queued or not), a receive, the drop of the
\* observer and the end of the worker, which discards its partial batch,
\* leave it as it was.
C39_EventsSentCounter ==
    /\ [](events_sent = EventsInOkSends(sends))
    /\ [][events_sent' # events_sent =>
             /\ pcW \in {"send_call", "in_Send"}
             /\ pcW' = "loop"
             /\ sends'[Len(sends')].result = "Ok"
             /\ events_sent' = events_sent + Len(batch)
             /\ batch # <<>>]_vars
    /\ [][(pcW \in {"send_call", "in_Send"} /\ pcW' = "loop"
             /\ sends'[Len(sends')].result = "Err")
            => events_sent' = events_sent]_vars

\* One flush failed, a later one succeeded, and the worker stopped holding
\* a batch it never sent: the counter holds the events of the second flush
\* only, fewer than were queued.
C39_Witness ==
    /\ pcW = "stopped"
    /\ Len(sends) = 2
    /\ sends[1].result = "Err"
    /\ sends[2].result = "Ok"
    /\ event_batch # <<>>
    /\ events_sent = Len(sends[2].events)
    /\ events_sent > 0
    /\ events_sent < Len(enqueued) - Len(event_batch)

====
